---- MODULE Spec2Model ----
(***************************************************************************)
(* rogaps/delugerpc: the rencode codec (rencode/encoder.go,                *)
(* rencode/decoder.go, rencode/rencode.go) and the net/rpc client codec    *)
(* that frames rencoded messages in zlib streams.                          *)
(*                                                                         *)
(* Bytes are naturals 0..255 and byte strings are sequences of them.       *)
(* Machine integers wider than the model checker's own are kept as a sign  *)
(* and a sequence of decimal digits (most significant first, no leading    *)
(* zero); the conversions to and from two's complement bytes and ASCII     *)
(* decimal text are computed digit by digit.                               *)
(***************************************************************************)
EXTENDS Integers, Sequences, FiniteSets, TLC

VARIABLES
    phase,      \* codec runs: "idle", "encoded", "encoded2", "decoded" (what was
                \* encoded), "received", "parsed" (what was received); client
                \* runs: "rpc", "crashed" (a panic ended the process)
    input,      \* the Go value handed to Encoder.Encode
    order,      \* the iteration order reflect's MapKeys happened to produce
    wire,       \* the bytes the Encoder wrote
    encErr,     \* the error Encode returned
    order2,     \* the iteration order MapKeys produced in the second Encode
    wire2,      \* the bytes a second Encode of the same value wrote
    target,     \* the type of the slot handed to Decoder.Decode
    decoded,    \* the untyped slot after Decoder.Decode
    decErr,     \* the error Decode returned
    decPos,     \* the number of bytes Decode consumed
    connIn,     \* transport, peer to client: the chunks successive reads return
    connOut,    \* transport, client to peer: one entry per conn.Write
    respBody,   \* clientCodec.respBody
    rSeq,       \* rpc.Response.Seq as the last ReadResponseHeader left it
    hdrErr,     \* the error of the last ReadResponseHeader
    hdrFrame,   \* the response value the last ReadResponseHeader decoded
    bodyOut,    \* the caller's slot after the last ReadResponseBody
    bodyErr,    \* the error of the last ReadResponseBody
    stashUses,  \* ReadResponseBody calls that delivered the payload now stashed:
                \* 0, 1, or 2 for "more than one"
    lastOp,     \* the read operation that ran last on the codec
    sent,       \* the number of frames the peer has sent
    lastWrite   \* the error of the last WriteRequest and the writes it made

vars == <<phase, input, order, wire, encErr, order2, wire2, target, decoded, decErr, decPos,
          connIn, connOut, respBody, rSeq, hdrErr, hdrFrame, bodyOut, bodyErr,
          stashUses, lastOp, sent, lastWrite>>

codecVars == <<phase, input, order, wire, encErr, order2, wire2, target, decoded, decErr, decPos>>
rpcVars == <<connIn, connOut, respBody, rSeq, hdrErr, hdrFrame, bodyOut, bodyErr,
             stashUses, lastOp, sent, lastWrite>>

-----------------------------------------------------------------------------
\* Bounds of the model

MaxSmallInt == 50     \* integers -MaxSmallInt..MaxSmallInt are all tried
MaxStrLen == 258      \* byte strings of every length 0..MaxStrLen
MaxListLen == 258     \* lists of every length 0..MaxListLen
MaxDictLen == 26      \* dicts of every size 0..MaxDictLen
MaxOrder == 5         \* map iteration orders 0..MaxOrder
MaxBigDigits == 66    \* big integers of up to MaxBigDigits decimal digits
MaxSeq == 1           \* request and response sequence numbers 0..MaxSeq
MaxSent == 2          \* frames the peer sends in one run
MaxWrites == 1        \* WriteRequest calls in one run

-----------------------------------------------------------------------------
\* The tag table, rencode/rencode.go

maxIntLength == 64
chrList == 59
chrDict == 60
chrInt == 61
chrInt1 == 62
chrInt2 == 63
chrInt4 == 64
chrInt8 == 65
chrFloat32 == 66
chrFloat64 == 44
chrTrue == 67
chrFalse == 68
chrNone == 69
chrTerm == 127
intPosFixedStart == 0
intPosFixedCount == 44
dictFixedStart == 102
dictFixedCount == 25
intNegFixedStart == 70
intNegFixedCount == 32
strFixedStart == 128
strFixedCount == 64
listFixedStart == strFixedStart + strFixedCount
listFixedCount == 64

-----------------------------------------------------------------------------
\* Machine arithmetic

\* Go's byte(x) conversion of a non-negative int: the low eight bits.
Byte(n) == n % 256

\* Arithmetic on the byte type wraps modulo 256.
ByteSub(a, b) == (a - b + 256) % 256

RECURSIVE StripZeros(_)
StripZeros(d) == IF Len(d) > 1 /\ d[1] = 0 THEN StripZeros(Tail(d)) ELSE d

RECURSIVE NatDigits(_)
NatDigits(n) == IF n < 10 THEN <<n>> ELSE Append(NatDigits(n \div 10), n % 10)

\* A small integer as sign and decimal digits.
Num(n) ==
    IF n < 0 THEN [neg |-> TRUE, mag |-> NatDigits(0 - n)]
    ELSE [neg |-> FALSE, mag |-> NatDigits(n)]

Zero == Num(0)

MagLess(a, b) ==
    \/ Len(a) < Len(b)
    \/ /\ Len(a) = Len(b)
       /\ \E i \in 1..Len(a) : a[i] < b[i] /\ \A j \in 1..(i - 1) : a[j] = b[j]

NumLess(x, y) ==
    IF x.neg /\ ~y.neg THEN TRUE
    ELSE IF ~x.neg /\ y.neg THEN FALSE
    ELSE IF x.neg THEN MagLess(y.mag, x.mag)
    ELSE MagLess(x.mag, y.mag)

NumLeq(x, y) == x = y \/ NumLess(x, y)

RECURSIVE MagDivStep(_, _, _, _, _)
MagDivStep(d, k, i, rem, q) ==
    IF i > Len(d) THEN [q |-> StripZeros(q), r |-> rem]
    ELSE LET t == rem * 10 + d[i]
         IN MagDivStep(d, k, i + 1, t % k, Append(q, t \div k))

\* Quotient and remainder of a digit sequence by a small divisor.
MagDivMod(d, k) == MagDivStep(d, k, 1, 0, <<>>)

\* The low w bytes of a magnitude, big-endian.
RECURSIVE MagBytesBE(_, _)
MagBytesBE(d, w) ==
    IF w = 0 THEN <<>>
    ELSE LET dm == MagDivMod(d, 256)
         IN Append(MagBytesBE(dm.q, w - 1), dm.r)

RECURSIVE NegBytesFrom(_, _, _)
NegBytesFrom(b, i, carry) ==
    IF i = 0 THEN <<>>
    ELSE LET t == (255 - b[i]) + carry
         IN Append(NegBytesFrom(b, i - 1, t \div 256), t % 256)

\* Two's complement negation of a big-endian byte string.
NegBytes(b) == NegBytesFrom(b, Len(b), 1)

\* The w-byte big-endian two's complement of x, truncating like a Go conversion.
TwosComplement(x, w) ==
    IF x.neg THEN NegBytes(MagBytesBE(x.mag, w)) ELSE MagBytesBE(x.mag, w)

\* binary.Write(w, BigEndian, intN(i)) for an int64 or uint64 i, N = 8 * w.
IntBytes(x, w) == SubSeq(TwosComplement(x, 8), 9 - w, 8)

\* byte(i) for an int64 or uint64 i.
LowByte(x) == IntBytes(x, 1)[1]

RECURSIVE MagMulAddFrom(_, _, _, _)
MagMulAddFrom(d, k, i, carry) ==
    IF i = 0 THEN (IF carry = 0 THEN <<>> ELSE NatDigits(carry))
    ELSE LET t == d[i] * k + carry
         IN Append(MagMulAddFrom(d, k, i - 1, t \div 10), t % 10)

\* d * k + c on digit sequences.
MagMulAdd(d, k, c) ==
    LET r == MagMulAddFrom(d, k, Len(d), c)
    IN IF r = <<>> THEN <<0>> ELSE StripZeros(r)

RECURSIVE BytesMag(_)
BytesMag(b) ==
    IF b = <<>> THEN <<0>>
    ELSE MagMulAdd(BytesMag(SubSeq(b, 1, Len(b) - 1)), 256, b[Len(b)])

\* binary.Read(r, BigEndian, &intN): a signed integer from its bytes.
SignedFromBytes(b) ==
    IF b[1] >= 128 THEN [neg |-> TRUE, mag |-> BytesMag(NegBytes(b))]
    ELSE [neg |-> FALSE, mag |-> BytesMag(b)]

UnsignedFromBytes(b) == [neg |-> FALSE, mag |-> BytesMag(b)]

MinInt8 == SignedFromBytes(<<128>>)
MaxInt8 == SignedFromBytes(<<127>>)
MinInt16 == SignedFromBytes(<<128, 0>>)
MaxInt16 == SignedFromBytes(<<127, 255>>)
MinInt32 == SignedFromBytes(<<128, 0, 0, 0>>)
MaxInt32 == SignedFromBytes(<<127, 255, 255, 255>>)
MinInt64 == SignedFromBytes(<<128, 0, 0, 0, 0, 0, 0, 0>>)
MaxInt64 == SignedFromBytes(<<127, 255, 255, 255, 255, 255, 255, 255>>)
MaxUint64 == UnsignedFromBytes(<<255, 255, 255, 255, 255, 255, 255, 255>>)

\* strconv.FormatInt(i, 10) and big.Int.String: ASCII decimal text.
FormatInt(x) ==
    (IF x.neg THEN <<45>> ELSE <<>>) \o [i \in 1..Len(x.mag) |-> 48 + x.mag[i]]

\* fmt.Sprintf("%d", n) for a non-negative int.
FormatNat(n) == FormatInt(Num(n))

\* Go's < on strings: bytewise lexicographic.
StrLess(a, b) ==
    \/ /\ Len(a) < Len(b)
       /\ \A j \in 1..Len(a) : a[j] = b[j]
    \/ \E i \in 1..(IF Len(a) < Len(b) THEN Len(a) ELSE Len(b)) :
          a[i] < b[i] /\ \A j \in 1..(i - 1) : a[j] = b[j]

-----------------------------------------------------------------------------
\* Go values.  A value is a record whose field k names its dynamic kind:
\*   nil, nilptr (a typed nil pointer), ptr (to), bool (b), int (i), uint (u),
\*   bigint (z), float32 (f4: its 4 bytes), float64 (f8: its 8 bytes),
\*   string (s), bytes (bs), slice (e), map (m: a function on its keys),
\*   struct (any struct other than big.Int).

GoNil == [k |-> "nil"]
GoBool(b) == [k |-> "bool", b |-> b]
GoInt(n) == [k |-> "int", i |-> n]
GoUint(n) == [k |-> "uint", u |-> n]
GoBigInt(n) == [k |-> "bigint", z |-> n]
GoFloat32(b) == [k |-> "float32", f4 |-> b]
GoFloat64(b) == [k |-> "float64", f8 |-> b]
GoString(s) == [k |-> "string", s |-> s]
GoBytes(s) == [k |-> "bytes", bs |-> s]
GoSlice(e) == [k |-> "slice", e |-> e]
GoMap(m) == [k |-> "map", m |-> m]
GoPtr(v) == [k |-> "ptr", to |-> v]
GoNilPtr == [k |-> "nilptr"]
GoStruct == [k |-> "struct"]

-----------------------------------------------------------------------------
\* Errors are records; NoErr is Go's nil error.
NoErr == [e |-> "nil"]

-----------------------------------------------------------------------------
\* The Encoder, rencode/encoder.go.  Every encode operator returns the error
\* and the bytes written to the io.Writer up to the return.

Wrote(b) == [err |-> NoErr, out |-> b]
Failed(msg, b) == [err |-> msg, out |-> b]

ErrNumberTooLong == [e |-> "rencode: Number is longer than 64 characters"]

Reverse(q) == [i \in 1..Len(q) |-> q[Len(q) + 1 - i]]
Rotate(q, n) ==
    IF Len(q) = 0 THEN q
    ELSE [i \in 1..Len(q) |-> q[((i - 1 + n) % Len(q)) + 1]]

\* An enumeration of a set of strings (the map's bucket order before the
\* runtime's random starting point is applied).
Enumerate(S) ==
    LET n == Cardinality(S)
        rank == [x \in S |-> Cardinality({y \in S : StrLess(y, x)})] @@ <<>>
    IN [r \in 1..n |-> CHOOSE x \in S : rank[x] = r - 1] \o <<>>

\* reflect.Value.MapKeys: the keys "in unspecified order".  ord selects one
\* order: a rotation of an enumeration of the keys, reversed when ord is odd.
MapKeys(m, ord) ==
    LET base == Rotate(Enumerate(DOMAIN m), ord \div 2)
    IN IF ord % 2 = 1 THEN Reverse(base) ELSE base

\* stringValues.Less
Less(a, b) == StrLess(a, b)

\* sort.Sort(keys) with stringValues.Less: each key goes to the position given
\* by the number of keys that sort before it (ties, which the sort leaves in
\* any order, are kept in their original order here).
\* encodeMap without the sort
KeepOrder(q) == q

SortKeys(q) ==
    LET n == Len(q)
        before(i) == Cardinality({j \in 1..n : Less(q[j], q[i])
                                    \/ (j < i /\ ~Less(q[i], q[j]))})
        rank == [i \in 1..n |-> before(i)] \o <<>>
    IN [r \in 1..n |-> q[CHOOSE i \in 1..n : rank[i] = r - 1]] \o <<>>

encodeNil == Wrote(<<chrNone>>)

encodeBool(b) == IF b THEN Wrote(<<chrTrue>>) ELSE Wrote(<<chrFalse>>)

\* encodeInt always taking its last branch
encodeIntWide(i) == [err |-> NoErr, out |-> <<chrInt8>> \o IntBytes(i, 8)]

encodeInt(i) ==
    IF NumLeq(Zero, i) /\ NumLess(i, Num(intPosFixedCount))
    THEN Wrote(<<intPosFixedStart + LowByte(i)>>)
    ELSE IF NumLeq(Num(0 - intNegFixedCount), i) /\ NumLess(i, Zero)
    THEN Wrote(<<ByteSub(intNegFixedStart - 1, LowByte(i))>>)
    ELSE IF NumLeq(MinInt8, i) /\ NumLeq(i, MaxInt8)
    THEN Wrote(<<chrInt1, LowByte(i)>>)
    ELSE IF NumLeq(MinInt16, i) /\ NumLeq(i, MaxInt16)
    THEN Wrote(<<chrInt2>> \o IntBytes(i, 2))
    ELSE IF NumLeq(MinInt32, i) /\ NumLeq(i, MaxInt32)
    THEN Wrote(<<chrInt4>> \o IntBytes(i, 4))
    ELSE Wrote(<<chrInt8>> \o IntBytes(i, 8))

\* encodeBigInt refusing the 64th character too
encodeBigIntStrict(z) ==
    LET s == FormatInt(z)
    IN IF Len(s) >= maxIntLength THEN [err |-> ErrNumberTooLong, out |-> <<>>]
       ELSE [err |-> NoErr, out |-> <<chrInt>> \o s \o <<chrTerm>>]

encodeBigInt(z) ==
    LET s == FormatInt(z)
    IN IF Len(s) > maxIntLength THEN Failed(ErrNumberTooLong, <<>>)
       ELSE Wrote(<<chrInt>> \o s \o <<chrTerm>>)

\* encodeUint converting every value to int64
encodeUintWrap(i) == encodeInt(SignedFromBytes(TwosComplement(i, 8)))

encodeUint(i) ==
    IF NumLess(i, Num(intPosFixedCount))
    THEN Wrote(<<intPosFixedStart + LowByte(i)>>)
    ELSE IF NumLeq(i, MaxInt8)
    THEN Wrote(<<chrInt1, LowByte(i)>>)
    ELSE IF NumLeq(i, MaxInt16)
    THEN Wrote(<<chrInt2>> \o IntBytes(i, 2))
    ELSE IF NumLeq(i, MaxInt32)
    THEN Wrote(<<chrInt4>> \o IntBytes(i, 4))
    ELSE IF NumLeq(i, MaxInt64)
    THEN Wrote(<<chrInt8>> \o IntBytes(i, 8))
    ELSE encodeBigInt(i)

encodeFloat32(f4) == Wrote(<<chrFloat32>> \o f4)

encodeFloat64(f8) == Wrote(<<chrFloat64>> \o f8)

encodeBytes(v) ==
    LET lv == Len(v)
    IN IF Byte(lv) < strFixedCount
       THEN Wrote(<<strFixedStart + Byte(lv)>> \o v)
       ELSE Wrote(FormatNat(lv) \o <<58>> \o v)

\* The leading byte of a list or a dict and whether it is the fixed-count form.
sliceFixedCount(vLen) == Byte(vLen) < listFixedCount
mapFixedCount(vLen) == Byte(vLen) < dictFixedCount

RECURSIVE Encode(_, _)
RECURSIVE encodeElems(_, _, _, _)
RECURSIVE encodePairs(_, _, _, _, _)

\* The loop of encodeSlice over elements lo..hi, in order, stopping at the
\* first error (the range is halved to keep the evaluation shallow).
encodeElems(e, lo, hi, ord) ==
    IF lo > hi THEN Wrote(<<>>)
    ELSE IF lo = hi THEN Encode(e[lo], ord)
    ELSE LET mid == (lo + hi) \div 2
             l == encodeElems(e, lo, mid, ord)
         IN IF l.err # NoErr THEN l
            ELSE LET r == encodeElems(e, mid + 1, hi, ord)
                 IN [err |-> r.err, out |-> l.out \o r.out]

\* The loop of encodeMap over keys[lo..hi]: key then value, stopping at the
\* first error.
encodePairs(m, keys, lo, hi, ord) ==
    IF lo > hi THEN Wrote(<<>>)
    ELSE IF lo = hi
    THEN LET rk == Encode(GoString(keys[lo]), ord)
         IN IF rk.err # NoErr THEN rk
            ELSE LET rv == Encode(m[keys[lo]], ord)
                 IN [err |-> rv.err, out |-> rk.out \o rv.out]
    ELSE LET mid == (lo + hi) \div 2
             l == encodePairs(m, keys, lo, mid, ord)
         IN IF l.err # NoErr THEN l
            ELSE LET r == encodePairs(m, keys, mid + 1, hi, ord)
                 IN [err |-> r.err, out |-> l.out \o r.out]

encodeSlice(e, ord) ==
    LET vLen == Len(e)
        fixedCount == sliceFixedCount(vLen)
        head == IF fixedCount THEN <<listFixedStart + Byte(vLen)>> ELSE <<chrList>>
        body == encodeElems(e, 1, vLen, ord)
    IN IF body.err # NoErr THEN Failed(body.err, head \o body.out)
       ELSE IF fixedCount THEN Wrote(head \o body.out)
       ELSE Wrote(head \o body.out \o <<chrTerm>>)

encodeMap(m, ord) ==
    LET vLen == Cardinality(DOMAIN m)
        fixedCount == mapFixedCount(vLen)
        head == IF fixedCount THEN <<dictFixedStart + Byte(vLen)>> ELSE <<chrDict>>
        keys == SortKeys(MapKeys(m, ord))
        body == encodePairs(m, keys, 1, Len(keys), ord)
    IN IF body.err # NoErr THEN Failed(body.err, head \o body.out)
       ELSE IF fixedCount THEN Wrote(head \o body.out)
       ELSE Wrote(head \o body.out \o <<chrTerm>>)

\* Encoder.Encode and Encoder.encodeValue
Encode(v, ord) ==
    CASE v.k = "nil" -> encodeNil
      [] v.k = "bool" -> encodeBool(v.b)
      [] v.k = "int" -> encodeInt(v.i)
      [] v.k = "uint" -> encodeUint(v.u)
      [] v.k = "float32" -> encodeFloat32(v.f4)
      [] v.k = "float64" -> encodeFloat64(v.f8)
      [] v.k = "bigint" -> encodeBigInt(v.z)
      [] v.k = "struct" -> Wrote(<<>>)
      [] v.k = "string" -> encodeBytes(v.s)
      [] v.k = "bytes" -> encodeBytes(v.bs)
      [] v.k = "slice" -> encodeSlice(v.e, ord)
      [] v.k = "map" -> encodeMap(v.m, ord)
      [] v.k = "nilptr" -> encodeNil
      [] v.k = "ptr" -> Encode(v.to, ord)

-----------------------------------------------------------------------------
\* Target types of a decode: the reflect.Kind of the slot and, for slices and
\* maps, the element types.

TIface == [kind |-> "iface"]
TString == [kind |-> "string"]
TBool == [kind |-> "bool"]
TInt(bits) == [kind |-> "int", bits |-> bits]
TUint(bits) == [kind |-> "uint", bits |-> bits]
TFloat(bits) == [kind |-> "float", bits |-> bits]
TBigInt == [kind |-> "bigint"]
TStruct == [kind |-> "struct"]
TSlice(elem) == [kind |-> "slice", elem |-> elem]
TMap(key, elem) == [kind |-> "map", key |-> key, elem |-> elem]

EmptyMap == <<>>
ZeroFloat == <<0, 0, 0, 0, 0, 0, 0, 0>>

\* reflect.Zero(t)
ZeroOf(t) ==
    CASE t.kind = "iface" -> GoNil
      [] t.kind = "string" -> GoString(<<>>)
      [] t.kind = "bool" -> GoBool(FALSE)
      [] t.kind = "int" -> GoInt(Zero)
      [] t.kind = "uint" -> GoUint(Zero)
      [] t.kind = "float" -> GoFloat64(ZeroFloat)
      [] t.kind = "bigint" -> GoBigInt(Zero)
      [] t.kind = "struct" -> GoStruct
      [] t.kind = "slice" -> GoSlice(<<>>)
      [] t.kind = "map" -> GoMap(EmptyMap)

-----------------------------------------------------------------------------
\* strconv and math/big text conversions

ErrEOF == [e |-> "EOF"]
ErrUnexpectedEOF == [e |-> "unexpected EOF"]
ErrSyntax == [e |-> "strconv: invalid syntax"]
ErrRange == [e |-> "strconv: value out of range"]
ErrScan == [e |-> "Int.Scan: invalid syntax"]
TypeError(value, t) == [e |-> "DecodeTypeError", value |-> value, type |-> t]
ErrUnsupported(c) == [e |-> "rencode: unsupported code", code |-> c]
ErrInvalidArg == [e |-> "DecodeInvalidArgError"]

IsDigit(c) == c \in 48..57

DigitsOf(ds) == StripZeros([i \in 1..Len(ds) |-> ds[i] - 48])

\* strconv.ParseInt(s, 10, 64)
ParseInt(s) ==
    LET signed == Len(s) > 0 /\ s[1] \in {43, 45}
        neg == Len(s) > 0 /\ s[1] = 45
        ds == IF signed THEN Tail(s) ELSE s
    IN IF ds = <<>> \/ \E i \in 1..Len(ds) : ~IsDigit(ds[i])
       THEN [err |-> ErrSyntax, n |-> Zero]
       ELSE LET mag == DigitsOf(ds)
            IN IF neg /\ MagLess(MinInt64.mag, mag) THEN [err |-> ErrRange, n |-> MinInt64]
               ELSE IF ~neg /\ MagLess(MaxInt64.mag, mag) THEN [err |-> ErrRange, n |-> MaxInt64]
               ELSE [err |-> NoErr, n |-> [neg |-> neg /\ mag # <<0>>, mag |-> mag]]

\* strconv.ParseUint(s, 10, 64): no sign is accepted.
ParseUint(s) ==
    IF s = <<>> \/ \E i \in 1..Len(s) : ~IsDigit(s[i])
    THEN [err |-> ErrSyntax, n |-> Zero]
    ELSE LET mag == DigitsOf(s)
         IN IF MagLess(MaxUint64.mag, mag) THEN [err |-> ErrRange, n |-> MaxUint64]
            ELSE [err |-> NoErr, n |-> [neg |-> FALSE, mag |-> mag]]

\* The longest prefix of ds made of digits below base.
RECURSIVE DigitRun(_, _, _)
DigitRun(ds, base, i) ==
    IF i > Len(ds) \/ ~IsDigit(ds[i]) \/ ds[i] - 48 >= base THEN i - 1
    ELSE DigitRun(ds, base, i + 1)

RECURSIVE MagFromBase(_, _, _)
MagFromBase(ds, base, n) ==
    IF n = 0 THEN <<0>> ELSE MagMulAdd(MagFromBase(ds, base, n - 1), base, ds[n] - 48)

\* fmt.Sscan(s, &bi) for a big.Int: an optional sign, then digits; the base
\* is taken from the prefix, so a leading 0 followed by digits reads as octal.
\* The scan stops at the first byte that is no digit of the base.
SscanBigInt(s) ==
    LET signed == Len(s) > 0 /\ s[1] \in {43, 45}
        neg == Len(s) > 0 /\ s[1] = 45
        ds == IF signed THEN Tail(s) ELSE s
        octal == Len(ds) > 1 /\ ds[1] = 48 /\ IsDigit(ds[2])
        base == IF octal THEN 8 ELSE 10
        n == DigitRun(ds, base, 1)
    IN IF n = 0 THEN [err |-> ErrScan, n |-> Zero]
       ELSE LET mag == IF octal THEN MagFromBase(ds, 8, n) ELSE DigitsOf(SubSeq(ds, 1, n))
            IN [err |-> NoErr, n |-> [neg |-> neg /\ mag # <<0>>, mag |-> mag]]

\* reflect.Value.OverflowInt and OverflowUint for a slot of the given width.
OverflowInt(n, bits) ==
    LET w == bits \div 8
        lo == SignedFromBytes([i \in 1..w |-> IF i = 1 THEN 128 ELSE 0])
        hi == SignedFromBytes([i \in 1..w |-> IF i = 1 THEN 127 ELSE 255])
    IN NumLess(n, lo) \/ NumLess(hi, n)

OverflowUint(n, bits) ==
    NumLess(UnsignedFromBytes([i \in 1..(bits \div 8) |-> 255]), n)

\* float64(data) for a float32 given by its four bytes.
Float32To64(b) ==
    LET sign == b[1] \div 128
        exp == (b[1] % 128) * 2 + b[2] \div 128
        mant == (b[2] % 128) * 65536 + b[3] * 256 + b[4]
        shift == IF exp = 0 /\ mant # 0
                 THEN CHOOSE k \in 1..23 : mant * (2 ^ k) >= 8388608 /\ mant * (2 ^ (k - 1)) < 8388608
                 ELSE 0
        m23 == IF shift > 0 THEN mant * (2 ^ shift) - 8388608 ELSE mant
        exp64 == IF exp = 255 THEN 2047
                 ELSE IF exp = 0 /\ mant = 0 THEN 0
                 ELSE IF exp = 0 THEN 897 - shift
                 ELSE exp + 896
        low19 == m23 % 524288
    IN << sign * 128 + exp64 \div 16,
          (exp64 % 16) * 16 + m23 \div 524288,
          low19 \div 2048,
          (low19 \div 8) % 256,
          (low19 % 8) * 32,
          0, 0, 0 >>

-----------------------------------------------------------------------------
\* The Decoder, rencode/decoder.go.  The stream is the byte string buf; pos is
\* the index of the next unread byte.  Every decode operator returns the error,
\* the position reached and the content of the slot when it returns (cur, the
\* content before the call, when the slot was not written).

Res(err, pos, val) == [err |-> err, pos |-> pos, val |-> val]

isFixedPosInt(code) == intPosFixedStart <= code /\ code < intPosFixedStart + intPosFixedCount
isFixedNegInt(code) == intNegFixedStart <= code /\ code < intNegFixedStart + intNegFixedCount
isFixedString(code) == strFixedStart <= code /\ code < strFixedStart + strFixedCount
isString(code) == 48 <= code /\ code <= 57
isFixedSlice(code) == listFixedStart <= code /\ code <= (listFixedStart - 1 + listFixedCount)
isFixedMap(code) == dictFixedStart <= code /\ code < dictFixedStart + dictFixedCount

\* The error of a read of n > 0 bytes that the stream cannot serve
\* (io.ReadFull, binary.Read).
ShortRead(buf, pos) == IF pos > Len(buf) THEN ErrEOF ELSE ErrUnexpectedEOF

\* bufio.Reader.ReadBytes(delim): the index of the first delim at or after pos,
\* 0 when the stream ends before one.
IndexOf(buf, pos, delim) ==
    IF \E i \in pos..Len(buf) : buf[i] = delim
    THEN CHOOSE i \in pos..Len(buf) : buf[i] = delim /\ \A j \in pos..(i - 1) : buf[j] # delim
    ELSE 0

\* setInt: the error and the slot's content.
setInt(s, t, cur) ==
    CASE t.kind = "int" ->
            LET r == ParseInt(s)
            IN IF r.err # NoErr THEN [err |-> r.err, val |-> cur]
               ELSE IF OverflowInt(r.n, t.bits)
               THEN [err |-> TypeError(<<"integer", s>>, t), val |-> cur]
               ELSE [err |-> NoErr, val |-> GoInt(r.n)]
      [] t.kind = "uint" ->
            LET r == ParseUint(s)
            IN IF r.err # NoErr THEN [err |-> r.err, val |-> cur]
               ELSE IF OverflowUint(r.n, t.bits)
               THEN [err |-> TypeError(<<"integer", s>>, t), val |-> cur]
               ELSE [err |-> NoErr, val |-> GoUint(r.n)]
      [] t.kind = "bool" -> [err |-> NoErr, val |-> GoBool(s # <<48>>)]
      [] t.kind = "bigint" ->
            LET r == SscanBigInt(s)
            IN IF r.err # NoErr THEN [err |-> r.err, val |-> cur]
               ELSE [err |-> NoErr, val |-> GoBigInt(r.n)]
      [] t.kind = "struct" -> [err |-> NoErr, val |-> cur]
      [] t.kind = "iface" ->
            LET r == ParseInt(s)
            IN IF r.err = ErrRange
               THEN LET b == SscanBigInt(s)
                    IN IF b.err # NoErr THEN [err |-> b.err, val |-> cur]
                       ELSE [err |-> NoErr, val |-> GoBigInt(b.n)]
               ELSE IF r.err # NoErr THEN [err |-> r.err, val |-> cur]
               ELSE [err |-> NoErr, val |-> GoInt(r.n)]
      [] OTHER -> [err |-> TypeError(<<"integer", s>>, t), val |-> cur]

setIntAt(pos, s, t, cur) ==
    LET r == setInt(s, t, cur) IN Res(r.err, pos, r.val)

\* The width in bytes of the fixed-width integer codes.
IntWidth(code) ==
    CASE code = chrInt1 -> 1
      [] code = chrInt2 -> 2
      [] code = chrInt4 -> 4
      [] code = chrInt8 -> 8

decodeInt(buf, pos, t, cur, code) ==
    IF code = chrInt
    THEN LET end == IndexOf(buf, pos, chrTerm)
         IN IF end = 0 THEN Res(ErrEOF, Len(buf) + 1, cur)
            ELSE setIntAt(end + 1, SubSeq(buf, pos, end - 1), t, cur)
    ELSE LET w == IntWidth(code)
         IN IF pos + w - 1 > Len(buf) THEN Res(ShortRead(buf, pos), Len(buf) + 1, cur)
            ELSE setIntAt(pos + w, FormatInt(SignedFromBytes(SubSeq(buf, pos, pos + w - 1))), t, cur)

\* setFloat: a slot of another kind makes reflect panic; the deferred function
\* recovers and its result is dropped, so setFloat returns nil with the slot
\* as it was.
setFloat(f, t, cur) ==
    IF t.kind = "iface" \/ t.kind = "float" THEN [err |-> NoErr, val |-> GoFloat64(f)]
    ELSE [err |-> NoErr, val |-> cur]

decodeFloat(buf, pos, t, cur, code) ==
    IF code = chrFloat32
    THEN \* the error of binary.Read is dropped: data stays 0
         IF pos + 3 > Len(buf)
         THEN LET r == setFloat(ZeroFloat, t, cur) IN Res(r.err, Len(buf) + 1, r.val)
         ELSE LET r == setFloat(Float32To64(SubSeq(buf, pos, pos + 3)), t, cur)
              IN Res(r.err, pos + 4, r.val)
    ELSE IF pos + 7 > Len(buf) THEN Res(ShortRead(buf, pos), Len(buf) + 1, cur)
         ELSE LET r == setFloat(SubSeq(buf, pos, pos + 7), t, cur)
              IN Res(r.err, pos + 8, r.val)

decodeBool(pos, t, cur, b) ==
    IF t.kind = "bool" \/ t.kind = "iface" THEN Res(NoErr, pos, GoBool(b))
    ELSE Res(TypeError(<<"bool">>, t), pos, cur)

\* decodeStringSize: the error, the position after the ':' and the size text.
decodeStringSize(buf, pos, c) ==
    LET end == IndexOf(buf, pos, 58)
    IN IF end = 0 THEN [err |-> ErrEOF, pos |-> Len(buf) + 1, n |-> Zero]
       ELSE LET r == ParseInt(<<c>> \o SubSeq(buf, pos, end - 1))
            IN [err |-> r.err, pos |-> end + 1, n |-> r.n]

\* A parsed size as a number of the model, capped above any stream length.
SizeOf(n) == IF Len(n.mag) > 9 THEN 1000000000
             ELSE LET F[i \in 0..Len(n.mag)] == IF i = 0 THEN 0 ELSE F[i - 1] * 10 + n.mag[i]
                  IN F[Len(n.mag)]

decodeString(buf, pos, t, cur, size) ==
    IF pos + size - 1 > Len(buf) THEN Res(ShortRead(buf, pos), Len(buf) + 1, cur)
    ELSE LET data == SubSeq(buf, pos, pos + size - 1)
         IN CASE t.kind = "string" -> Res(NoErr, pos + size, GoString(data))
              [] t.kind = "slice" /\ t.elem = TUint(8) -> Res(NoErr, pos + size, GoBytes(data))
              [] t.kind = "iface" -> Res(NoErr, pos + size, GoString(data))
              [] OTHER -> Res(TypeError(<<"string">>, t), pos + size, cur)

RECURSIVE decodeValue(_, _, _, _)
RECURSIVE sliceRun(_, _, _, _, _)
RECURSIVE mapRun(_, _, _, _, _, _)

\* One pass of the loop of decodeSlice.  st: err, pos, i (the loop counter),
\* acc (the slice so far), done (the function returned).
sliceStep(buf, st, elemT, size) ==
    IF st.done THEN st
    ELSE IF size >= 0 /\ st.i >= size THEN [st EXCEPT !.done = TRUE]
    ELSE IF size < 0 /\ st.pos > Len(buf) THEN [st EXCEPT !.done = TRUE, !.err = ErrEOF]
    ELSE IF size < 0 /\ buf[st.pos] = chrTerm THEN [st EXCEPT !.done = TRUE, !.pos = @ + 1]
    ELSE LET had == st.i < Len(st.acc)
             r == decodeValue(buf, st.pos, elemT, IF had THEN st.acc[st.i + 1] ELSE ZeroOf(elemT))
         IN [err |-> r.err, pos |-> r.pos, i |-> st.i + 1,
             acc |-> IF had THEN [st.acc EXCEPT ![st.i + 1] = r.val] ELSE Append(st.acc, r.val),
             done |-> r.err # NoErr]

\* n passes of the loop (the count is halved to keep the evaluation shallow).
sliceRun(buf, st, elemT, size, n) ==
    IF n <= 1 THEN sliceStep(buf, st, elemT, size)
    ELSE LET mid == sliceRun(buf, st, elemT, size, n \div 2)
         IN IF mid.done THEN mid ELSE sliceRun(buf, mid, elemT, size, n - n \div 2)

\* The passes the loop can make: size of them and the one that leaves it, or,
\* for the terminated form, at most one per byte left in the stream.
LoopBound(buf, pos, size) == (IF size >= 0 THEN size ELSE Len(buf) - pos + 1) + 1

decodeSlice(buf, pos, t, cur, size) ==
    LET tt == IF t.kind = "iface" THEN TSlice(TIface) ELSE t
    IN IF tt.kind # "slice" THEN Res(TypeError(<<"slice">>, t), pos, cur)
       ELSE LET start == IF t.kind = "iface" \/ cur.k # "slice" THEN <<>> ELSE cur.e
                fin == sliceRun(buf, [err |-> NoErr, pos |-> pos, i |-> 0, acc |-> start, done |-> FALSE],
                                tt.elem, size, LoopBound(buf, pos, size))
            IN Res(fin.err, fin.pos, GoSlice(fin.acc))

\* One pass of the loop of decodeMap.  isMap is false for a struct target,
\* whose values are decoded and dropped.
mapStep(buf, st, elemT, isMap, size) ==
    IF st.done THEN st
    ELSE IF size >= 0 /\ st.i >= size THEN [st EXCEPT !.done = TRUE]
    ELSE IF st.pos > Len(buf) THEN [st EXCEPT !.done = TRUE, !.err = ErrEOF]
    ELSE IF buf[st.pos] = chrTerm THEN [st EXCEPT !.done = TRUE, !.pos = @ + 1]
    ELSE LET key == decodeValue(buf, st.pos, TString, GoString(<<>>))
         IN IF key.err # NoErr THEN [st EXCEPT !.done = TRUE, !.err = key.err, !.pos = key.pos]
            ELSE LET r == decodeValue(buf, key.pos, IF isMap THEN elemT ELSE TIface,
                                      IF isMap THEN ZeroOf(elemT) ELSE GoNil)
                 IN IF r.err # NoErr THEN [st EXCEPT !.done = TRUE, !.err = r.err, !.pos = r.pos]
                    ELSE [err |-> NoErr, pos |-> r.pos, i |-> st.i + 1,
                          acc |-> IF isMap THEN (key.val.s :> r.val) @@ st.acc ELSE st.acc,
                          done |-> FALSE]

mapRun(buf, st, elemT, isMap, size, n) ==
    IF n <= 1 THEN mapStep(buf, st, elemT, isMap, size)
    ELSE LET mid == mapRun(buf, st, elemT, isMap, size, n \div 2)
         IN IF mid.done THEN mid ELSE mapRun(buf, mid, elemT, isMap, size, n - n \div 2)

decodeMap(buf, pos, t, cur, size) ==
    LET tt == IF t.kind = "iface" THEN TMap(TString, TIface) ELSE t
        isMap == tt.kind = "map"
    IN IF tt.kind = "map" /\ tt.key # TString THEN Res(TypeError(<<"string ">>, tt.key), pos, cur)
       ELSE IF tt.kind \notin {"map", "struct", "bigint"} THEN Res(TypeError(<<"map">>, t), pos, cur)
       ELSE LET start == IF t.kind = "iface" \/ cur.k # "map" THEN EmptyMap ELSE cur.m
                fin == mapRun(buf, [err |-> NoErr, pos |-> pos, i |-> 0, acc |-> start, done |-> FALSE],
                              IF isMap THEN tt.elem ELSE TIface, isMap, size, LoopBound(buf, pos, size))
            IN Res(fin.err, fin.pos, IF isMap THEN GoMap(fin.acc) ELSE cur)

decodeValue(buf, pos, t, cur) ==
    IF pos > Len(buf) THEN Res(ErrEOF, pos, cur)
    ELSE LET c == buf[pos]
             p == pos + 1
         IN CASE c = chrNone -> Res(NoErr, p, cur)
              [] c = chrFalse -> decodeBool(p, t, cur, FALSE)
              [] c = chrTrue -> decodeBool(p, t, cur, TRUE)
              [] c \in {chrInt1, chrInt2, chrInt4, chrInt8, chrInt} -> decodeInt(buf, p, t, cur, c)
              [] c \in {chrFloat32, chrFloat64} -> decodeFloat(buf, p, t, cur, c)
              [] c = chrList -> decodeSlice(buf, p, t, cur, 0 - 1)
              [] c = chrDict -> decodeMap(buf, p, t, cur, 0 - 1)
              [] OTHER ->
                    IF isFixedPosInt(c)
                    THEN setIntAt(p, FormatInt(Num(c - intPosFixedStart)), t, cur)
                    ELSE IF isFixedNegInt(c)
                    THEN setIntAt(p, FormatInt(Num(0 - (c - intNegFixedStart + 1))), t, cur)
                    ELSE IF isFixedString(c)
                    THEN decodeString(buf, p, t, cur, c - strFixedStart)
                    ELSE IF isString(c)
                    THEN LET sz == decodeStringSize(buf, p, c)
                         IN IF sz.err # NoErr THEN Res(sz.err, sz.pos, cur)
                            ELSE decodeString(buf, sz.pos, t, cur, SizeOf(sz.n))
                    ELSE IF isFixedSlice(c)
                    THEN decodeSlice(buf, p, t, cur, c - listFixedStart)
                    ELSE IF isFixedMap(c)
                    THEN decodeMap(buf, p, t, cur, c - dictFixedStart)
                    ELSE Res(ErrUnsupported(c), p, cur)

\* Decoder.Decode(v): v must be a non-nil pointer; the slot is what it points to.
Decode(buf, isPtr, t, cur) ==
    IF ~isPtr THEN Res(ErrInvalidArg, 1, cur) ELSE decodeValue(buf, 1, t, cur)

-----------------------------------------------------------------------------
\* The values the codec runs are given.

Pad8(b, fill) == [i \in 1..8 |-> IF i <= 8 - Len(b) THEN fill ELSE b[i - (8 - Len(b))]]

\* The ends of the 8, 16, 32 and 64 bit ranges and their neighbours, and a
\* few values in between.
EdgeInts ==
    { SignedFromBytes(Pad8(b, 0)) :
        b \in { <<127>>, <<128>>, <<127, 255>>, <<128, 0>>, <<3, 232>>, <<1, 0, 0>>,
                <<127, 255, 255, 255>>, <<128, 0, 0, 0>>, <<1, 2, 3, 4, 5>>,
                <<127, 255, 255, 255, 255, 255, 255, 255>> } }
    \cup
    { SignedFromBytes(Pad8(b, 255)) :
        b \in { <<128>>, <<127>>, <<128, 0>>, <<127, 255>>, <<252, 24>>, <<254, 255, 255>>,
                <<128, 0, 0, 0>>, <<127, 255, 255, 255>>, <<254, 253, 252, 251, 250>>,
                <<128, 0, 0, 0, 0, 0, 0, 0>> } }

SmallInts == { Num(n) : n \in (0 - MaxSmallInt)..MaxSmallInt }

IntInputs == { GoInt(n) : n \in SmallInts \cup EdgeInts }

UintInputs ==
    { GoUint(n) : n \in { x \in SmallInts \cup EdgeInts : ~x.neg }
                        \cup { UnsignedFromBytes(<<128, 0, 0, 0, 0, 0, 0, 0>>),
                               UnsignedFromBytes(<<128, 0, 0, 0, 0, 0, 0, 1>>),
                               MaxUint64 } }

Pow10(k) == [neg |-> FALSE, mag |-> <<1>> \o [i \in 1..k |-> 0]]
Negated(x) == [neg |-> x.mag # <<0>>, mag |-> x.mag]

BigIntInputs ==
    { GoBigInt(n) :
        n \in { Num(0), Num(5), Num(0 - 5), MaxInt64, MinInt64, MaxUint64,
                UnsignedFromBytes(<<128, 0, 0, 0, 0, 0, 0, 0>>),
                Negated(UnsignedFromBytes(<<128, 0, 0, 0, 0, 0, 0, 1>>)) }
              \cup { Pow10(k - 1) : k \in 60..MaxBigDigits }
              \cup { Negated(Pow10(k - 1)) : k \in 60..MaxBigDigits } }

FloatInputs ==
    { GoFloat64(b) : b \in { ZeroFloat, <<63, 240, 0, 0, 0, 0, 0, 0>>, <<127, 239, 255, 255, 255, 255, 255, 255>>,
                              <<192, 9, 33, 251, 84, 68, 45, 24>> } }
    \cup { GoFloat32(b) : b \in { <<0, 0, 0, 0>>, <<63, 128, 0, 0>>, <<127, 127, 255, 255>>, <<192, 73, 15, 219>> } }

Text(n) == [i \in 1..n |-> 97 + (i % 26)]

StringInputs == { GoString(Text(n)) : n \in 0..MaxStrLen } \cup { GoBytes(Text(n)) : n \in {0, 6, 64} }

ListOf(n) == GoSlice([i \in 1..n |-> GoInt(Num(i % 40))])

ListInputs == { ListOf(n) : n \in 0..MaxListLen }

Key(i) == <<195, 182>> \o FormatNat(i)

DictOf(n) == GoMap([k \in { Key(i) : i \in 0..(n - 1) } |-> GoInt(Num(Len(k)))] @@ <<>>)

\* A dict whose size is a multiple of 256.
WideDict == DictOf(256)

DictInputs == { DictOf(n) : n \in 0..MaxDictLen } \cup { WideDict }

TooLong == GoBigInt(Pow10(maxIntLength))

NestedInputs ==
    { GoSlice(<<GoInt(Num(127)), GoString(Text(6)), GoString(Text(65))>>),
      GoSlice(<<GoNil, GoBool(TRUE), GoSlice(<<GoBool(FALSE), GoSlice(<<>>)>>), DictOf(2)>>),
      GoSlice(<<GoInt(Num(1)), GoSlice(<<GoInt(Num(2)), TooLong, GoInt(Num(3))>>), GoInt(Num(4))>>),
      GoMap((<<98>> :> GoInt(Num(1))) @@ (<<97>> :> GoInt(Num(2)))),
      GoMap((<<97>> :> GoNil) @@ (<<97, 97>> :> DictOf(3)) @@ (<<66>> :> GoSlice(<<GoString(<<>>)>>))),
      GoMap((<<107>> :> TooLong) @@ (<<97>> :> GoInt(Num(2)))),
      GoPtr(GoInt(Num(200))), GoPtr(DictOf(1)), GoSlice(<<GoNilPtr, GoStruct>>) }

PlainInputs ==
    { GoNil, GoNilPtr, GoStruct, GoBool(TRUE), GoBool(FALSE) }
    \cup IntInputs \cup UintInputs \cup BigIntInputs \cup FloatInputs \cup StringInputs \cup ListInputs

Inputs == PlainInputs \cup DictInputs \cup NestedInputs

\* The iteration orders tried for a value: one when it holds no map, two for
\* the widest dict.
OrdersFor(v) ==
    IF v \in PlainInputs THEN {0}
    ELSE IF v = WideDict THEN {0, 1}
    ELSE 0..MaxOrder

\* Streams a peer may send that no Encode of the values above produces.
RawStreams ==
    { <<chrInt>> \o s \o <<chrTerm>> :
        s \in { <<48, 48, 55>>, <<43, 53>>, <<>>, <<49, 120>>,
                FormatInt(MaxUint64) \o <<48>>, <<45>> \o FormatInt(MaxUint64) } }
    \cup { <<chrInt, 49, 50>>, <<chrFloat32, 63>>, <<chrFloat64, 63, 240>>, <<chrInt4, 1, 2>>,
           <<dictFixedStart + 2, strFixedStart + 1, 97, 1, chrTerm>>,
           <<listFixedStart + 2, 1, chrTerm>>, <<chrList, 1, 2>>, <<chrDict, strFixedStart + 1, 97>>,
           <<dictFixedStart + 1, 5, 6>>, <<dictFixedStart + 1, chrFloat64, 63, 240, 0, 0, 0, 0, 0, 0, 7>>,
           <<58>>, <<51, 58, 97>>, <<strFixedStart + 3, 97>> }

\* Values of every wire kind, alone and nested: the integer widths, a BigInt,
\* both floats, a fixed and a length-prefixed string, fixed-count and
\* terminated lists and dicts.
SampleValues ==
    { GoBool(TRUE), GoInt(Num(5)), GoInt(Num(0 - 5)), GoInt(Num(100)), GoInt(Num(1000)),
      GoInt(Num(100000)), GoInt(MaxInt64), GoBigInt(MaxUint64),
      GoFloat32(<<63, 128, 0, 0>>), GoFloat64(<<63, 240, 0, 0, 0, 0, 0, 0>>),
      GoString(Text(6)), GoString(Text(64)), ListOf(3), ListOf(64), DictOf(2), DictOf(25),
      GoSlice(<<GoFloat32(<<192, 73, 15, 219>>)>>),
      GoSlice(<<GoSlice(<<GoInt(Num(1000))>>), GoString(Text(2))>>),
      GoMap(<<107>> :> GoSlice(<<GoInt(Num(1)), GoFloat64(<<63, 240, 0, 0, 0, 0, 0, 0>>)>>)) }

\* Streams that hold exactly one encoded value.
CompleteStreams == { Encode(v, 0).out : v \in SampleValues }

\* Streams that end before the value they hold is complete.
Prefixes(w) == { SubSeq(w, 1, n) : n \in 0..(Len(w) - 1) }

TruncatedStreams == UNION { Prefixes(w) : w \in CompleteStreams }

-----------------------------------------------------------------------------
\* One run of the codec: a value is encoded, encoded once more under another
\* map iteration order, and the bytes are decoded into an untyped slot; or a
\* stream arrives from a peer and is decoded into an untyped or a typed slot.

TargetTypes == {TIface}

\* The slots a stream from a peer is decoded into.
SlotTypes ==
    { TIface, TBool, TString, TInt(8), TInt(64), TUint(8), TFloat(64), TBigInt, TStruct,
      TSlice(TIface), TSlice(TUint(8)), TMap(TString, TIface) }

InitCodec ==
    /\ phase = "idle"
    /\ input = GoNil
    /\ order = 0
    /\ wire = <<>>
    /\ encErr = NoErr
    /\ order2 = 0
    /\ wire2 = <<>>
    /\ target = TIface
    /\ decoded = GoNil
    /\ decErr = NoErr
    /\ decPos = 1

\* e := NewEncoder(&buf); err := e.Encode(v)
EncodeValue ==
    /\ phase = "idle"
    /\ \E v \in Inputs : \E ord \in OrdersFor(v) : \E r \in { Encode(v, ord) } :
             /\ input' = v
             /\ order' = ord
             /\ wire' = r.out
             /\ encErr' = r.err
    /\ phase' = "encoded"
    /\ UNCHANGED <<order2, wire2, target, decoded, decErr, decPos>>
    /\ UNCHANGED rpcVars

\* A second Encode of the same value into a fresh buffer.
EncodeAgain ==
    /\ phase = "encoded"
    /\ \E ord \in OrdersFor(input) :
          /\ order2' = ord
          /\ wire2' = Encode(input, ord).out
    /\ phase' = "encoded2"
    /\ UNCHANGED <<input, order, wire, encErr, target, decoded, decErr, decPos>>
    /\ UNCHANGED rpcVars

\* The stream holds bytes written by a peer.
Receive ==
    /\ phase = "idle"
    /\ \E b \in RawStreams \cup CompleteStreams \cup TruncatedStreams : wire' = b
    /\ phase' = "received"
    /\ UNCHANGED <<input, order, encErr, order2, wire2, target, decoded, decErr, decPos>>
    /\ UNCHANGED rpcVars

\* d := NewDecoder(bytes.NewBuffer(wire)); var x T; err := d.Decode(&x)
DecodeWire ==
    /\ phase \in {"encoded", "received"}
    /\ encErr = NoErr
    /\ \E t \in (IF phase = "encoded" THEN TargetTypes ELSE SlotTypes) :
       \E r \in { Decode(wire, TRUE, t, ZeroOf(t)) } :
             /\ target' = t
             /\ decoded' = r.val
             /\ decErr' = r.err
             /\ decPos' = r.pos
    /\ phase' = IF phase = "encoded" THEN "decoded" ELSE "parsed"
    /\ UNCHANGED <<input, order, wire, encErr, order2, wire2>>
    /\ UNCHANGED rpcVars

-----------------------------------------------------------------------------
\* The client codec.  A zlib stream is carried as a record: the bytes it
\* inflates to, and whether its header and trailer are intact.

Deflate(b) == [z |-> b, ok |-> TRUE]
Torn == [z |-> <<>>, ok |-> FALSE]

ErrHeader == [e |-> "zlib: invalid header"]
ErrWrite == [e |-> "write: broken pipe"]
ErrEvent == [e |-> "event is not supported"]
ErrUnknownType == [e |-> "unknown message type"]
ErrUnwritable == [e |-> "Unwritable type passed into decode"]
\* the exception's text left out
ErrExceptionBare(text) == [e |-> "exception", text |-> <<>>]

ErrException(text) == [e |-> "exception", text |-> text]
Panic == [e |-> "panic"]

rpcResponse == 1
rpcError == 2
rpcEvent == 3

\* fmt's %v of a decoded value
FormatV(v) ==
    CASE v.k = "string" -> v.s
      [] v.k \in {"int", "uint"} -> FormatInt(IF v.k = "int" THEN v.i ELSE v.u)
      [] v.k = "bigint" -> FormatInt(v.z)
      [] v.k = "bool" -> IF v.b THEN <<116, 114, 117, 101>> ELSE <<102, 97, 108, 115, 101>>
      [] v.k = "nil" -> <<60, 110, 105, 108, 62>>
      [] OTHER -> <<91, 46, 46, 46, 93>>

\* strings.EqualFold on the runes of two strings: ASCII letters fold to lower
\* case, and so do the Kelvin sign (to k) and the long s (to s).
FoldRunes(s) ==
    LET F[i \in 1..(Len(s) + 1)] ==
            IF i > Len(s) THEN <<>>
            ELSE IF s[i] \in 65..90 THEN <<s[i] + 32>> \o F[i + 1]
            ELSE IF i + 1 <= Len(s) /\ s[i] = 197 /\ s[i + 1] = 191 THEN <<115>> \o F[i + 2]
            ELSE IF i + 2 <= Len(s) /\ s[i] = 226 /\ s[i + 1] = 132 /\ s[i + 2] = 170
                 THEN <<107>> \o F[i + 3]
            ELSE <<s[i]>> \o F[i + 1]
    IN F[1]

EqualFold(s, t) == FoldRunes(s) = FoldRunes(t)

StrArgs == <<97, 114, 103, 115>>
StrKwargs == <<107, 119, 97, 114, 103, 115>>

\* reflect.Value.Index(i).Interface() for every element of a slice or array
Elements(v) ==
    CASE v.k = "slice" -> v.e
      [] v.k = "bytes" -> [i \in 1..Len(v.bs) |-> GoUint(Num(v.bs[i]))]
      [] OTHER -> <<>>

getArgs(body, ord) ==
    CASE body.k \in {"slice", "bytes"} -> [args |-> Elements(body), kwargs |-> EmptyMap]
      [] body.k = "map" ->
            LET keys == MapKeys(body.m, ord)
                F[i \in 0..Len(keys)] ==
                    IF i = 0 THEN [args |-> <<>>, kwargs |-> EmptyMap]
                    ELSE LET key == keys[i]
                             val == body.m[key]
                         IN IF EqualFold(StrArgs, key)
                            THEN [args |-> F[i - 1].args \o Elements(val), kwargs |-> F[i - 1].kwargs]
                            ELSE IF EqualFold(StrKwargs, key)
                            THEN IF val.k = "map"
                                 THEN [args |-> F[i - 1].args, kwargs |-> val.m]
                                 ELSE F[i - 1]
                            ELSE F[i - 1]
            IN F[Len(keys)]
      [] OTHER -> [args |-> <<>>, kwargs |-> EmptyMap]

\* The value WriteRequest hands to the encoder.
Request(seq, method, body, ord) ==
    LET a == getArgs(body, ord)
    IN GoSlice(<<GoSlice(<<GoUint(Num(seq)), GoString(method), GoSlice(a.args), GoMap(a.kwargs)>>)>>)

\* WriteRequest writing whatever the encoder produced before looking at its error
writeRequestEager(seq, method, body, ord, connOk) ==
    LET r == Encode(Request(seq, method, body, ord), ord)
    IN [err |-> IF r.err # NoErr THEN r.err ELSE IF connOk THEN NoErr ELSE ErrWrite,
        written |-> <<Deflate(r.out)>>]

\* clientCodec.WriteRequest: the error it returns and the writes it makes on
\* the transport.  connOk tells whether conn.Write succeeds.
writeRequest(seq, method, body, ord, connOk) ==
    LET r == Encode(Request(seq, method, body, ord), ord)
    IN IF r.err # NoErr THEN [err |-> r.err, written |-> <<>>]
       ELSE IF ~connOk THEN [err |-> ErrWrite, written |-> <<>>]
       ELSE [err |-> NoErr, written |-> <<Deflate(r.out)>>]

\* r.Seq left as the caller passed it
SeqUnset(x) == Zero

\* uint64(x) of an int64
Uint64(x) == UnsignedFromBytes(TwosComplement(x, 8))

NoFrame == [k |-> "none"]

Outcome(err, seq, stash, frame) == [err |-> err, seq |-> seq, stash |-> stash, frame |-> frame]

\* ReadResponseHeader from the result d of d.Decode(&resp) on.
classifyResponse(d, stash) ==
    LET resp == d.val.e
    IN IF d.err # NoErr THEN Outcome(d.err, Zero, stash, NoFrame)
       ELSE IF Len(resp) < 1 \/ resp[1].k # "int" THEN Outcome(Panic, Zero, stash, d.val)
       ELSE IF Len(resp) < 2 \/ resp[2].k # "int" THEN Outcome(Panic, Zero, stash, d.val)
       ELSE LET messageType == resp[1].i
                seq == Uint64(resp[2].i)
            IN IF messageType = Num(rpcResponse)
               THEN IF Len(resp) < 3 THEN Outcome(Panic, seq, stash, d.val)
                    ELSE Outcome(NoErr, seq, resp[3], d.val)
               ELSE IF messageType = Num(rpcError)
               THEN IF Len(resp) < 3 \/ resp[3].k # "slice" \/ Len(resp[3].e) < 2
                    THEN Outcome(Panic, seq, stash, d.val)
                    ELSE Outcome(ErrException(FormatV(resp[3].e[1]) \o <<58, 32>> \o FormatV(resp[3].e[2])),
                                 seq, stash, d.val)
               ELSE IF messageType = Num(rpcEvent)
               THEN Outcome(ErrEvent, seq, stash, d.val)
               ELSE Outcome(ErrUnknownType, seq, stash, d.val)

\* clientCodec.ReadResponseHeader on the first zlib stream of the bytes one
\* read of the transport returned; stash is c.respBody before the call.
readResponseHeader(f, stash) ==
    IF ~f.ok THEN Outcome(ErrHeader, Zero, stash, NoFrame)
    ELSE classifyResponse(Decode(f.z, TRUE, TSlice(TIface), ZeroOf(TSlice(TIface))), stash)

\* The slots a caller hands to ReadResponseBody.
Slots == {"*interface{}", "*int64", "nil"}

\* reflect.Value.Set: the stash must be assignable to the slot's type.
Assignable(v, slot) == slot = "*interface{}" \/ (slot = "*int64" /\ v.k = "int")

Untouched == [set |-> FALSE, val |-> GoNil]

\* clientCodec.ReadResponseBody: the error it returns and the caller's slot.
readResponseBody(slot, stash) ==
    IF slot = "nil" THEN [err |-> ErrUnwritable, out |-> Untouched]
    ELSE IF stash # GoNil
    THEN IF Assignable(stash, slot) THEN [err |-> NoErr, out |-> [set |-> TRUE, val |-> stash]]
         ELSE [err |-> Panic, out |-> Untouched]
    ELSE [err |-> NoErr, out |-> Untouched]

-----------------------------------------------------------------------------
\* What the peer sends and what callers ask for.

Seqs == 0..MaxSeq

Payloads == { GoInt(Num(7)), GoString(<<111, 107>>), GoNil }

ExcType == GoString(<<69, 114, 114>>)
ExcMsg == GoString(<<98, 97, 100>>)

ResponseValue(kind, seq, payload) == GoSlice(<<GoInt(Num(kind)), GoInt(Num(seq)), payload>>)

\* Frames of the shape [kind, seq, payload].
GoodFrames ==
    { ResponseValue(rpcResponse, q, GoInt(Num(7))) : q \in Seqs }
    \cup { ResponseValue(rpcResponse, MaxSeq, GoString(<<111, 107>>)), ResponseValue(rpcResponse, 0, GoNil) }
    \cup { ResponseValue(rpcError, q, GoSlice(<<ExcType, ExcMsg>>)) : q \in Seqs }
    \cup { ResponseValue(rpcError, 0, GoSlice(<<ExcType, GoInt(Num(5)), GoString(<<116>>)>>)) }
    \cup { ResponseValue(k, q, GoNil) : k \in {rpcEvent, 4}, q \in Seqs }
    \cup { ResponseValue(0, MaxSeq, GoInt(Num(7))) }

\* Frames of another shape.
OddFrames ==
    { GoSlice(<<>>),
      GoSlice(<<GoInt(Num(rpcEvent)), GoString(<<101, 118>>), GoSlice(<<>>)>>),
      ResponseValue(rpcError, 1, GoString(<<98, 97, 100>>)) }

Streams ==
    { Deflate(Encode(v, 0).out) : v \in GoodFrames \cup OddFrames }
    \cup { Deflate(SubSeq(Encode(ResponseValue(rpcResponse, 1, GoString(<<111, 107>>)), 0).out, 1, 4)), Torn }

Methods == { <<99, 111, 114, 101, 46, 103, 101, 116>>,
             <<100, 97, 101, 109, 111, 110, 46, 105, 110, 102, 111>> }

\* A value of type ArgsKwargs
ArgsKwargs(args, kwargs) == [k |-> "struct", Args |-> args, Kwargs |-> kwargs]

Bodies ==
    { ArgsKwargs(<<GoInt(Num(1))>>, <<107>> :> GoBool(TRUE)),
      GoSlice(<<>>), GoSlice(<<GoInt(Num(1)), GoString(<<120>>)>>), GoSlice(<<TooLong>>),
      GoSlice(<<GoSlice(<<GoMap(<<120>> :> GoSlice(<<TooLong>>))>>)>>),
      GoMap((StrArgs :> GoSlice(<<GoInt(Num(1))>>)) @@ (StrKwargs :> GoMap(<<107>> :> GoBool(TRUE)))),
      GoMap((StrArgs :> GoSlice(<<GoInt(Num(1))>>)) @@ (<<65, 82, 71, 83>> :> GoSlice(<<GoInt(Num(2))>>))),
      GoMap((<<75, 119, 97, 114, 103, 115>> :> GoMap(<<107>> :> TooLong)) @@ (<<120>> :> GoInt(Num(3)))),
      GoMap(<<65, 114, 103, 115>> :> GoString(<<120>>)),
      GoString(<<120>>), GoNil, GoBytes(<<1, 200>>) }

BodyOrders(b) == IF b.k = "map" THEN {0, 1} ELSE {0}

NotCalled == [calls |-> 0]

InitRpc ==
    /\ connIn = <<>>
    /\ connOut = <<>>
    /\ respBody = GoNil
    /\ rSeq = Zero
    /\ hdrErr = NoErr
    /\ hdrFrame = NoFrame
    /\ bodyOut = Untouched
    /\ bodyErr = NoErr
    /\ stashUses = 0
    /\ lastOp = "none"
    /\ sent = 0
    /\ lastWrite = NotCalled

\* The peer writes one zlib stream.  It reaches the client in a read of its
\* own, or in the same read as the stream before it.  (Bytes waiting behind
\* an unread chunk behave as bytes that arrive after it was read.)
PeerSend ==
    /\ phase = "rpc"
    /\ sent < MaxSent
    /\ \E f \in Streams :
          \/ /\ connIn = <<>>
             /\ connIn' = <<<<f>>>>
          \/ /\ connIn # <<>>
             /\ connIn' = [connIn EXCEPT ![Len(connIn)] = Append(@, f)]
    /\ sent' = sent + 1
    /\ UNCHANGED <<phase, connOut, respBody, rSeq, hdrErr, hdrFrame, bodyOut, bodyErr,
                   stashUses, lastOp, lastWrite>>
    /\ UNCHANGED <<input, order, wire, encErr, order2, wire2, target, decoded, decErr, decPos>>

WriteRequest ==
    /\ phase = "rpc"
    /\ lastWrite.calls < MaxWrites
    /\ \E seq \in Seqs, method \in Methods, body \in Bodies, connOk \in BOOLEAN :
       \E ord \in BodyOrders(body) : \E w \in { writeRequest(seq, method, body, ord, connOk) } :
             /\ connOut' = connOut \o w.written
             /\ lastWrite' = [calls |-> lastWrite.calls + 1, seq |-> seq, method |-> method, body |-> body, ord |-> ord,
                              err |-> w.err, before |-> Len(connOut)]
    /\ UNCHANGED <<phase, connIn, respBody, rSeq, hdrErr, hdrFrame, bodyOut, bodyErr,
                   stashUses, lastOp, sent>>
    /\ UNCHANGED <<input, order, wire, encErr, order2, wire2, target, decoded, decErr, decPos>>

\* The call is made with a fresh rpc.Response and blocks until the transport
\* has data.  The zlib reader buffers all the bytes the transport's read
\* returns and is dropped when the call ends.
ReadResponseHeader ==
    /\ phase = "rpc"
    /\ connIn # <<>>
    /\ \E o \in { readResponseHeader(Head(connIn)[1], respBody) } :
          /\ connIn' = Tail(connIn)
          /\ hdrErr' = o.err
          /\ rSeq' = o.seq
          /\ respBody' = o.stash
          /\ hdrFrame' = o.frame
          /\ stashUses' = IF o.err = NoErr THEN 0 ELSE stashUses
          /\ phase' = IF o.err = Panic THEN "crashed" ELSE phase
    /\ lastOp' = "ReadResponseHeader"
    /\ UNCHANGED <<connOut, bodyOut, bodyErr, sent, lastWrite>>
    /\ UNCHANGED <<input, order, wire, encErr, order2, wire2, target, decoded, decErr, decPos>>

ReadResponseBody ==
    /\ phase = "rpc"
    /\ \E slot \in Slots : \E b \in { readResponseBody(slot, respBody) } :
             /\ bodyErr' = b.err
             /\ bodyOut' = b.out
             /\ stashUses' = IF ~b.out.set THEN stashUses
                              ELSE IF stashUses = 0 THEN 1 ELSE 2
             /\ phase' = IF b.err = Panic THEN "crashed" ELSE phase
    /\ lastOp' = "ReadResponseBody"
    /\ UNCHANGED <<connIn, connOut, respBody, rSeq, hdrErr, hdrFrame, sent, lastWrite>>
    /\ UNCHANGED <<input, order, wire, encErr, order2, wire2, target, decoded, decErr, decPos>>

-----------------------------------------------------------------------------
\* The specifications: runs of the rencode codec, and runs of the client
\* codec over a transport.

Init == InitCodec /\ InitRpc

Next == EncodeValue \/ EncodeAgain \/ Receive \/ DecodeWire

Spec == Init /\ [][Next]_vars

InitClient ==
    /\ phase = "rpc"
    /\ input = GoNil
    /\ order = 0
    /\ wire = <<>>
    /\ encErr = NoErr
    /\ order2 = 0
    /\ wire2 = <<>>
    /\ target = TIface
    /\ decoded = GoNil
    /\ decErr = NoErr
    /\ decPos = 1
    /\ InitRpc

\* Reading and writing share only the transport, whose two directions are
\* independent: the responses are read in runs of their own, the requests
\* written in runs of their own.
NextRead == PeerSend \/ ReadResponseHeader \/ ReadResponseBody

SpecRead == InitClient /\ [][NextRead]_vars

NextWrite == WriteRequest

SpecWrite == InitClient /\ [][NextWrite]_vars

-----------------------------------------------------------------------------
\* Properties of the rencode codec (specification Spec).

\* The decimal text of a number, sign first.
Decimal(n) == (IF n.neg THEN <<45>> ELSE <<>>) \o [i \in 1..Len(n.mag) |-> n.mag[i] + 48]

InRange(n, lo, hi) == NumLeq(lo, n) /\ NumLeq(n, hi)

RECURSIVE RoundTripValue(_)
\* The values the round trip is stated for: Null, Bool, Int64, BigInt of at
\* most 64 characters, Float64, byte strings, lists and string-keyed dicts.
RoundTripValue(v) ==
    CASE v.k \in {"nil", "bool", "int", "float64", "string", "bytes"} -> TRUE
      [] v.k = "bigint" -> Len(Decimal(v.z)) <= 64
      [] v.k = "slice" -> \A i \in 1..Len(v.e) : RoundTripValue(v.e[i])
      [] v.k = "map" -> \A x \in DOMAIN v.m : RoundTripValue(v.m[x])
      [] OTHER -> FALSE

RECURSIVE Canonical(_)
\* A value at the canonical-type level: integers as int64 when they fit and
\* as BigInt otherwise, byte strings as text.
Canonical(v) ==
    CASE v.k = "bigint" -> IF InRange(v.z, MinInt64, MaxInt64) THEN GoInt(v.z) ELSE v
      [] v.k = "bytes" -> GoString(v.bs)
      [] v.k = "slice" -> GoSlice([i \in 1..Len(v.e) |-> Canonical(v.e[i])])
      [] v.k = "map" -> GoMap([x \in DOMAIN v.m |-> Canonical(v.m[x])])
      [] OTHER -> v

\* C1: decoding the bytes Encode(v) wrote into an untyped slot succeeds,
\* yields v at the canonical-type level and consumes exactly those bytes, for
\* every v built from Null, Bool, Int64, BigInt of at most 64 characters,
\* Float64, byte strings, lists and string-keyed dicts.
RoundTrip ==
    (phase = "decoded" /\ target = TIface /\ RoundTripValue(input)) =>
        /\ decErr = NoErr
        /\ Canonical(decoded) = Canonical(input)
        /\ decPos = Len(wire) + 1

\* C2: a byte string of length L is written in the fixed form (128+L, then
\* the bytes) exactly when L < 64 and as decimal L, ':' and the bytes
\* otherwise; a list has the leading byte 192+L exactly when L < 64 and is
\* 59 ... 127 otherwise; a dict has the leading byte 102+L exactly when
\* L < 25 and is 60 ... 127 otherwise.
ShapeByLength ==
    (phase = "encoded" /\ encErr = NoErr) =>
        CASE input.k = "string" ->
                LET L == Len(input.s)
                IN IF L < 64 THEN wire = <<128 + L>> \o input.s
                   ELSE wire = Decimal(Num(L)) \o <<58>> \o input.s
          [] input.k = "slice" ->
                LET L == Len(input.e)
                IN IF L < 64 THEN wire[1] = 192 + L
                   ELSE wire[1] = 59 /\ wire[Len(wire)] = 127
          [] input.k = "map" ->
                LET L == Cardinality(DOMAIN input.m)
                IN IF L < 25 THEN wire[1] = 102 + L
                   ELSE wire[1] = 60 /\ wire[Len(wire)] = 127
          [] OTHER -> TRUE

\* The payload width of the narrowest form of n: 0 for the one-byte form.
NarrowWidth(n) ==
    IF InRange(n, Num(0 - 32), Num(43)) THEN 0
    ELSE IF InRange(n, Num(0 - 128), Num(127)) THEN 1
    ELSE IF InRange(n, Num(0 - 32768), Num(32767)) THEN 2
    ELSE IF InRange(n, [neg |-> TRUE, mag |-> <<2, 1, 4, 7, 4, 8, 3, 6, 4, 8>>], Num(2147483647)) THEN 4
    ELSE 8

TagOfWidth(w) == CASE w = 1 -> 62 [] w = 2 -> 63 [] w = 4 -> 64 [] w = 8 -> 65

\* C3: Encode of a signed 64-bit n writes one byte when -32 <= n <= 43 (n,
\* or 69 - n when n < 0), and otherwise the tag 62, 63, 64 or 65 of the
\* narrowest of the 8, 16, 32 and 64 bit ranges holding n, followed by n in
\* big-endian two's complement; an unsigned value not above the Int64 maximum
\* is written as the equal signed value.
NarrowestInt ==
    (/\ phase = "encoded"
     /\ input.k \in {"int", "uint"}
     /\ (input.k = "uint" => NumLeq(input.u, MaxInt64))) =>
        LET n == IF input.k = "int" THEN input.i ELSE input.u
            w == NarrowWidth(n)
        IN /\ encErr = NoErr
           /\ Len(wire) = w + 1
           /\ IF w = 0
              THEN wire[1] = (IF n.neg THEN 69 + SizeOf(n) ELSE SizeOf(n))
              ELSE wire[1] = TagOfWidth(w) /\ SignedFromBytes(Tail(wire)) = n

NarrowestIntWitness ==
    /\ phase = "encoded"
    /\ input.k = "uint"
    /\ input.u = MaxInt64
    /\ Len(wire) = 9

\* The keys of the n pairs of a dict's encoding, in the order they appear.
WireKeys(w, n) ==
    LET P[i \in 0..n] ==
            IF i = 0 THEN 2
            ELSE decodeValue(w, decodeValue(w, P[i - 1], TString, GoString(<<>>)).pos, TIface, GoNil).pos
    IN [i \in 1..n |-> decodeValue(w, P[i - 1], TString, GoString(<<>>)).val.s]

\* C4: two Encode calls on the same dict, whatever order its keys are
\* iterated in, write the same bytes, and the pairs appear in ascending
\* lexicographic order of their keys, in the fixed-count and in the
\* terminated shape.
DeterministicKeyOrder ==
    (phase = "encoded2") =>
        /\ wire2 = wire
        /\ (input.k = "map" /\ encErr = NoErr /\ Cardinality(DOMAIN input.m) <= MaxDictLen) =>
              LET n == Cardinality(DOMAIN input.m)
                  ks == WireKeys(wire, n)
              IN /\ { ks[i] : i \in 1..n } = DOMAIN input.m
                 /\ \A i \in 1..(n - 1) : StrLess(ks[i], ks[i + 1])

DeterministicKeyOrderWitness ==
    /\ phase = "encoded2"
    /\ input.k = "map"
    /\ Cardinality(DOMAIN input.m) = 25
    /\ wire[1] = 60
    /\ MapKeys(input.m, order) # MapKeys(input.m, order2)

\* A BigInt-tagged literal: tag 61, a decimal number without leading zeros,
\* TERM.
IsLiteral(w) ==
    /\ Len(w) >= 3
    /\ w[1] = 61
    /\ w[Len(w)] = 127
    /\ LET t == SubSeq(w, 2, Len(w) - 1)
           d == IF t[1] = 45 THEN Tail(t) ELSE t
       IN /\ d # <<>>
          /\ \A i \in 1..Len(d) : d[i] \in 48..57
          /\ d[1] = 48 => (Len(d) = 1 /\ t[1] # 45)

LiteralValue(w) ==
    LET t == SubSeq(w, 2, Len(w) - 1)
        d == IF t[1] = 45 THEN Tail(t) ELSE t
    IN [neg |-> t[1] = 45, mag |-> [i \in 1..Len(d) |-> d[i] - 48]]

\* C5: an unsigned value above the Int64 maximum is written in the BigInt
\* form (61, decimal digits, 127); a BigInt-tagged literal decoded into an
\* untyped slot gives an Int64 when the number fits in signed 64 bits and a
\* BigInt otherwise; the encoding of the largest unsigned 64-bit value
\* decodes to a BigInt equal to it.
BoundaryOverflow ==
    /\ (phase = "encoded" /\ input.k = "uint" /\ NumLess(MaxInt64, input.u)) =>
          /\ encErr = NoErr
          /\ wire = <<61>> \o Decimal(input.u) \o <<127>>
    /\ (phase \in {"decoded", "parsed"} /\ target = TIface /\ IsLiteral(wire)) =>
          LET n == LiteralValue(wire)
          IN /\ decErr = NoErr
             /\ decoded = IF InRange(n, MinInt64, MaxInt64) THEN GoInt(n) ELSE GoBigInt(n)
    /\ (phase = "decoded" /\ input = GoUint(MaxUint64)) => decoded = GoBigInt(MaxUint64)

BoundaryOverflowWitness ==
    /\ phase = "decoded"
    /\ input = GoUint(MaxUint64)
    /\ decErr = NoErr
    /\ decoded.k = "bigint"

\* C6: Encode of a big integer succeeds, writing 61, the decimal form and
\* 127, exactly when the decimal form (sign included) is at most 64
\* characters long; otherwise it returns the number-too-long error and
\* writes nothing.
BigIntCap ==
    (phase = "encoded" /\ input.k = "bigint") =>
        IF Len(Decimal(input.z)) <= 64
        THEN encErr = NoErr /\ wire = <<61>> \o Decimal(input.z) \o <<127>>
        ELSE encErr = ErrNumberTooLong /\ wire = <<>>

BigIntCapWitness ==
    /\ phase = "encoded"
    /\ input.k = "bigint"
    /\ input.z.neg
    /\ Len(input.z.mag) = 64
    /\ encErr = ErrNumberTooLong

\* C12: whenever the stream ends before the value being decoded is complete
\* (the stream is a proper prefix of a valid encoding), Decode returns an
\* error, for every wire kind and at every nesting depth.
TruncationIsError ==
    (phase = "parsed" /\ wire \in TruncatedStreams) => decErr # NoErr

\* The wire kind a leading byte announces.
WireKind(c) ==
    CASE c \in {67, 68} -> "bool"
      [] c \in (0..43) \cup (61..65) \cup (70..101) -> "integer"
      [] c \in {44, 66} -> "float"
      [] c \in (48..57) \cup (128..191) -> "string"
      [] c \in {59} \cup (192..255) -> "list"
      [] c \in {60} \cup (102..126) -> "dict"
      [] OTHER -> "other"

\* How the decoder's errors call the wire kinds.
KindName(kind) ==
    CASE kind = "list" -> "slice"
      [] kind = "dict" -> "map"
      [] OTHER -> kind

\* The number an integer wire value carries.
WireInt(w) ==
    IF w[1] \in 0..43 THEN Num(w[1])
    ELSE IF w[1] \in 70..101 THEN Num(69 - w[1])
    ELSE IF w[1] = 61 THEN LiteralValue(w)
    ELSE SignedFromBytes(Tail(w))

\* The range of a typed integer slot.
SlotRange(t) ==
    CASE t = TInt(8) -> [lo |-> Num(0 - 128), hi |-> Num(127)]
      [] t = TInt(64) -> [lo |-> MinInt64, hi |-> MaxInt64]
      [] t = TUint(8) -> [lo |-> Zero, hi |-> Num(255)]

\* The slot's kind can hold a value of the wire kind.
CanHold(t, kind) ==
    \/ t.kind = "iface"
    \/ kind = "bool" /\ t.kind = "bool"
    \/ kind = "integer" /\ t.kind \in {"int", "uint", "bool", "bigint"}
    \/ kind = "float" /\ t.kind = "float"
    \/ kind = "string" /\ (t.kind = "string" \/ t = TSlice(TUint(8)))
    \/ kind = "list" /\ t.kind = "slice"
    \/ kind = "dict" /\ t.kind = "map"

\* The stream's value does not fit the slot: its kind cannot hold the wire
\* kind, or it is an integer slot and the number is outside its range.
Mismatch(w, t) ==
    \/ ~CanHold(t, WireKind(w[1]))
    \/ /\ WireKind(w[1]) = "integer"
       /\ t.kind \in {"int", "uint"}
       /\ ~InRange(WireInt(w), SlotRange(t).lo, SlotRange(t).hi)

\* C13: decoding a wire value into a typed slot whose kind cannot hold it,
\* or an integer into an integer slot whose range does not hold it, returns
\* a type-mismatch error naming the wire kind and the target type, and never
\* success.
TypeMismatchIsError ==
    (phase = "parsed" /\ wire \in CompleteStreams /\ Mismatch(wire, target)) =>
        /\ decErr # NoErr
        /\ decErr.e = "DecodeTypeError"
        /\ decErr.type = target
        /\ decErr.value[1] = KindName(WireKind(wire[1]))

\* The position after n items read from position 2 of w on, each item an
\* element (of a list) or a key read from a string wire value and a value (of
\* a dict), none of them starting at a TERM byte; 0 when the stream does not
\* hold n such items.
ItemsEnd(w, n, isDict) ==
    LET Value(p) ==
            IF p = 0 \/ p > Len(w) \/ w[p] = 127 THEN 0
            ELSE LET v == decodeValue(w, p, TIface, GoNil)
                 IN IF v.err # NoErr THEN 0 ELSE v.pos
        KeyEnd(p) ==
            IF p = 0 \/ p > Len(w) \/ WireKind(w[p]) # "string" THEN 0
            ELSE LET k == decodeValue(w, p, TString, GoString(<<>>))
                 IN IF k.err # NoErr THEN 0 ELSE k.pos
        P[i \in 0..n] ==
            IF i = 0 THEN 2
            ELSE IF isDict THEN Value(KeyEnd(P[i - 1]))
            ELSE Value(P[i - 1])
    IN P[n]

\* C15: a Decode of a fixed-count dict tag 102+N (a fixed-count list tag
\* 192+N) that succeeds has read exactly N key/value pairs (N elements), every
\* key from a string wire value and no key or element from a TERM byte.
FixedCountExact ==
    (phase = "parsed" /\ wire # <<>> /\ decErr = NoErr) =>
        /\ (wire[1] \in 102..126 /\ target \in {TIface, TMap(TString, TIface)}) =>
              /\ ItemsEnd(wire, wire[1] - 102, TRUE) = decPos
              /\ Cardinality(DOMAIN decoded.m) <= wire[1] - 102
        /\ (wire[1] \in 192..255 /\ target \in {TIface, TSlice(TIface)}) =>
              /\ ItemsEnd(wire, wire[1] - 192, FALSE) = decPos
              /\ Len(decoded.e) = wire[1] - 192

-----------------------------------------------------------------------------
\* Properties of the client codec's reading side (specification SpecRead).

\* C7: a payload stashed by a kind-1 header is delivered by at most one
\* ReadResponseBody call, which clears the stash, and a ReadResponseBody call
\* made after a header that returned an error leaves the caller's slot
\* untouched.
SingleUseStash ==
    /\ stashUses <= 1
    /\ (lastOp = "ReadResponseBody" /\ bodyOut.set) => respBody = GoNil
    /\ (lastOp = "ReadResponseBody" /\ hdrErr # NoErr) => ~bodyOut.set

\* A frame [kind, seq, payload] with integer kind, unsigned seq and, for
\* kind 2, a payload of at least two entries.
WellFormed(fr) ==
    /\ fr.k = "slice"
    /\ Len(fr.e) = 3
    /\ fr.e[1].k = "int"
    /\ fr.e[2].k = "int"
    /\ ~fr.e[2].i.neg
    /\ fr.e[1].i = Num(2) => (fr.e[3].k = "slice" /\ Len(fr.e[3].e) >= 2)

\* How an exception entry reads in the error text.
Shown(v) == IF v.k = "string" THEN v.s ELSE Decimal(v.i)

\* C8: for a frame [kind, seq, payload], ReadResponseHeader succeeds with
\* the payload stashed when kind = 1, returns "<type>: <msg>" from the first
\* two entries of the payload when kind = 2, "event is not supported" when
\* kind = 3 and "unknown message type" for any other kind; a call that
\* returns an error leaves the stash as it was.
ResponseClassification ==
    /\ [](WellFormed(hdrFrame) =>
            LET kind == hdrFrame.e[1].i
                payload == hdrFrame.e[3]
            IN CASE kind = Num(1) -> hdrErr = NoErr /\ respBody = payload
                 [] kind = Num(2) ->
                       /\ hdrErr.e = "exception"
                       /\ hdrErr.text = Shown(payload.e[1]) \o <<58, 32>> \o Shown(payload.e[2])
                 [] kind = Num(3) -> hdrErr = [e |-> "event is not supported"]
                 [] OTHER -> hdrErr = [e |-> "unknown message type"])
    /\ [][(lastOp' = "ReadResponseHeader" /\ hdrErr' # NoErr) => respBody' = respBody]_vars

ResponseClassificationWitness ==
    /\ lastOp = "ReadResponseHeader"
    /\ WellFormed(hdrFrame)
    /\ hdrErr.e = "exception"
    /\ Len(hdrFrame.e[3].e) = 3
    /\ respBody # GoNil

\* C9: when ReadResponseHeader returns an error for a frame
\* [kind, seq, payload], the response's Seq is the frame's seq.
SeqOnError ==
    (WellFormed(hdrFrame) /\ hdrErr # NoErr) => rSeq = hdrFrame.e[2].i

SeqOnErrorWitness ==
    /\ lastOp = "ReadResponseHeader"
    /\ WellFormed(hdrFrame)
    /\ hdrErr = [e |-> "event is not supported"]
    /\ rSeq = Num(1)

\* The frames waiting on the transport, in the order the peer sent them.
Waiting(c) ==
    LET F[i \in 0..Len(c)] == IF i = 0 THEN <<>> ELSE F[i - 1] \o c[i]
    IN F[Len(c)]

\* Complete response frames [kind, seq, payload].
ResponseFrames == { Deflate(Encode(v, 0).out) : v \in GoodFrames }

\* C14: when the frames waiting on the transport are complete response
\* frames, a ReadResponseHeader call takes the first of them and nothing of
\* the frames behind it, also when it returns an error and when several
\* frames arrived in one read, and returns the seq and kind of that frame, so
\* that successive calls see the frames one by one in the order sent.
FrameByFrame ==
    [][(/\ sent' = sent
        /\ connIn' # connIn
        /\ \A i \in 1..Len(Waiting(connIn)) : Waiting(connIn)[i] \in ResponseFrames) =>
          /\ Waiting(connIn') = Tail(Waiting(connIn))
          /\ hdrFrame' = Decode(Waiting(connIn)[1].z, TRUE, TIface, GoNil).val
          /\ rSeq' = hdrFrame'.e[2].i]_vars

-----------------------------------------------------------------------------
\* Properties of the client codec's writing side (specification SpecWrite).

RECURSIVE CarriesLongNumber(_)
\* A list, at any depth, holds a big integer of more than 64 characters.
CarriesLongNumber(v) ==
    CASE v.k = "bigint" -> Len(Decimal(v.z)) > 64
      [] v.k = "slice" -> \E i \in 1..Len(v.e) : CarriesLongNumber(v.e[i])
      [] v.k = "map" -> \E x \in DOMAIN v.m : CarriesLongNumber(v.m[x])
      [] OTHER -> FALSE

\* C10: a WriteRequest call that succeeds has made exactly one write on the
\* transport, a complete zlib stream that inflates to the encoding of
\* [[seq, method, args, kwargs]]; a call whose encoding fails (a big integer
\* of more than 64 characters among the arguments, at any depth) returns that
\* error and writes nothing.
AtomicWrite ==
    (lastWrite.calls > 0) =>
        /\ (lastWrite.err = NoErr) =>
              /\ Len(connOut) = lastWrite.before + 1
              /\ LET w == connOut[Len(connOut)]
                     d == Decode(w.z, TRUE, TIface, GoNil)
                 IN /\ w.ok
                    /\ d.err = NoErr
                    /\ d.pos = Len(w.z) + 1
                    /\ d.val.k = "slice" /\ Len(d.val.e) = 1
                    /\ d.val.e[1].k = "slice" /\ Len(d.val.e[1].e) = 4
                    /\ d.val.e[1].e[1] = GoInt(Num(lastWrite.seq))
                    /\ d.val.e[1].e[2] = GoString(lastWrite.method)
        /\ (lastWrite.err = ErrNumberTooLong) => Len(connOut) = lastWrite.before
        /\ (lastWrite.body.k = "slice" /\ CarriesLongNumber(lastWrite.body)) =>
              lastWrite.err = ErrNumberTooLong

AtomicWriteWitness ==
    /\ lastWrite.calls > 0
    /\ lastWrite.body.k = "slice"
    /\ lastWrite.body.e # <<>>
    /\ lastWrite.body.e[1].k = "slice"
    /\ lastWrite.err = ErrNumberTooLong
    /\ connOut = <<>>

\* ASCII letters folded to lower case.
Lower(s) == [i \in 1..Len(s) |-> IF s[i] \in 65..90 THEN s[i] + 32 ELSE s[i]]

\* The elements of a sequence, as a list holds them.
AsList(v) ==
    CASE v.k = "slice" -> v.e
      [] v.k = "bytes" -> [i \in 1..Len(v.bs) |-> GoInt(Num(v.bs[i]))]
      [] OTHER -> <<>>

\* The orders a set of keys can be taken in.
Orderings(S) ==
    { f \in [1..Cardinality(S) -> S] : \A i, j \in 1..Cardinality(S) : f[i] = f[j] => i = j }

\* The (args, kwargs) pairs the body stands for: the two parts of an explicit
\* pair; the elements of a sequence and no kwargs; for a mapping, the values
\* stored under the keys equal to "args" ignoring case (one after the other,
\* in any order, when several keys are) and under a key equal to "kwargs"
\* ignoring case, and nothing for a part without a key; nothing for any other
\* body.
Normalised(body) ==
    IF body.k = "struct" /\ "Args" \in DOMAIN body
    THEN { [args |-> body.Args, kwargs |-> body.Kwargs] }
    ELSE IF body.k \in {"slice", "bytes"}
    THEN { [args |-> AsList(body), kwargs |-> EmptyMap] }
    ELSE IF body.k = "map"
    THEN LET ak == { x \in DOMAIN body.m : Lower(x) = StrArgs }
             kk == { x \in DOMAIN body.m : Lower(x) = StrKwargs }
             Joined(f) ==
                 LET J[i \in 0..Cardinality(ak)] ==
                         IF i = 0 THEN <<>> ELSE J[i - 1] \o AsList(body.m[f[i]])
                 IN J[Cardinality(ak)]
             as == { Joined(f) : f \in Orderings(ak) }
             ks == IF kk = {} THEN { EmptyMap }
                   ELSE { IF body.m[x].k = "map" THEN body.m[x].m ELSE EmptyMap : x \in kk }
         IN { [args |-> a, kwargs |-> k] : a \in as, k \in ks }
    ELSE { [args |-> <<>>, kwargs |-> EmptyMap] }

\* The encoding of [[seq, method, args, kwargs]].
Envelope(seq, method, n) ==
    Encode(GoSlice(<<GoSlice(<<GoInt(Num(seq)), GoString(method), GoSlice(n.args), GoMap(n.kwargs)>>)>>), 0).out

\* C11: WriteRequest writes the encoding of the one-element list holding
\* [seq, method, args, kwargs], where (args, kwargs) are the two parts of an
\* explicit pair, the elements of a sequence and no kwargs, the values under
\* the keys "args" and "kwargs" (ignoring case) of a mapping, and empty for
\* any other body; for seq 1, method "daemon.info" and an empty body the
\* bytes are C1 C4 01 8B "daemon.info" C0 66.
BodyNormalisation ==
    (lastWrite.calls > 0 /\ lastWrite.err = NoErr) =>
        LET w == connOut[Len(connOut)]
        IN /\ \E n \in Normalised(lastWrite.body) :
                 w.z = Envelope(lastWrite.seq, lastWrite.method, n)
           /\ (lastWrite.seq = 1 /\ Len(lastWrite.method) = 11 /\ lastWrite.body = GoSlice(<<>>)) =>
                 w.z = <<193, 196, 1, 139>> \o lastWrite.method \o <<192, 102>>

====
